---------------------------- MODULE Spec2Model ----------------------------
(***************************************************************************)
(* Gold Eye terminal (src/gold_eye_terminal_news.py): the keyword          *)
(* classifier, the concurrent feed fetch with the link-based merge, and    *)
(* the rolling volatility of a price series.                               *)
(*                                                                         *)
(* Strings the code inspects (titles, links, keywords, frequency strings)  *)
(* are sequences of one-character strings, so that lower(), strip() and    *)
(* the substring test `w in text` are computed rather than assumed.        *)
(***************************************************************************)
EXTENDS Integers, Sequences, FiniteSets, TLC

VARIABLES
    \* --- keyword classifier (analyze_impact, analyze_sentiment)
    tpc,              \* "input" | "classified"
    title,            \* the item's title
    description,      \* the item's description
    impact,           \* analyze_impact's return value
    sentiment,        \* analyze_sentiment's return value
    \* --- fetch_feeds and the merge of the news terminal
    table,            \* the (name, url) pairs handed to the executor, in order
    pc,               \* main thread: "submit" | "collect" | "merge" | "done"
    nsub,             \* number of futures submitted so far
    fstate,           \* per feed: "none" | "pending" | "running" | "finished"
    outcome,          \* per feed: "none" | "ok" | "failed", how its HTTP exchange ended
    result,           \* per feed: what the future holds once finished
    finished,         \* as_completed: futures already finished when it was called
    finished_futures, \* as_completed: the waiter's list, in finishing order
    completion,       \* history: feed names in the order their tasks finished
    yielded,          \* history: feed names in the order as_completed yielded them
    all_data,         \* fetch_feeds' dict, as (fname, items) pairs in insertion order
    all_news,         \* the list handed to presentation (after line 317)
    slow,             \* the feed whose fetch is not assumed to end ("none": no such feed)
    \* --- fetch_volatility
    vpc,              \* "start" | "fallback" | "compute" | "done"
    interval,         \* interval of the download in use: "1h" | "1d"
    raw,              \* the downloaded frame: rows [ts, close] as delivered
    freqstr,          \* raw.index.freqstr (<<>>: None)
    window,           \* the rolling window chosen at line 235 (0: not reached)
    df                \* the returned frame: rows [ts, close, ret, volsq]

textVars == <<tpc, title, description, impact, sentiment>>
newsVars == <<table, pc, nsub, fstate, outcome, result, finished, finished_futures,
              completion, yielded, all_data, all_news, slow>>
volVars  == <<vpc, interval, raw, freqstr, window, df>>
vars     == <<textVars, newsVars, volVars>>

-----------------------------------------------------------------------------
(* Bounds of the model *)

\* a title is the concatenation of at most MaxFrags fragments
MaxFrags == 2
\* the feed table is cut to its last NumFeeds entries when item contents are tracked
NumFeeds == 2
\* at most MaxItems items are served by all feeds together in one cycle
MaxItems == 2
\* a downloaded price series has at most MaxObs rows
MaxObs == 26
\* closes are 1..MaxPrice
MaxPrice == 2
\* closes move in blocks of 1..MaxBlock equal rows
MaxBlock == 3

-----------------------------------------------------------------------------
(* Strings *)

\* Python's `w in text` for strings: w occurs as a contiguous run of text
Contains(text, w) ==
    \E i \in 1..(Len(text) - Len(w) + 1) : SubSeq(text, i, i + Len(w) - 1) = w


\* str.lower() on one character
LowerChar(c) ==
    CASE c = "A" -> "a"
      [] c = "B" -> "b"
      [] c = "C" -> "c"
      [] c = "D" -> "d"
      [] c = "E" -> "e"
      [] c = "F" -> "f"
      [] c = "G" -> "g"
      [] c = "H" -> "h"
      [] c = "I" -> "i"
      [] c = "J" -> "j"
      [] c = "K" -> "k"
      [] c = "L" -> "l"
      [] c = "M" -> "m"
      [] c = "N" -> "n"
      [] c = "O" -> "o"
      [] c = "P" -> "p"
      [] c = "Q" -> "q"
      [] c = "R" -> "r"
      [] c = "S" -> "s"
      [] c = "T" -> "t"
      [] c = "U" -> "u"
      [] c = "V" -> "v"
      [] c = "W" -> "w"
      [] c = "X" -> "x"
      [] c = "Y" -> "y"
      [] c = "Z" -> "z"
      [] OTHER -> c

\* str.lower()
Lower(s) == [i \in 1..Len(s) |-> LowerChar(s[i])]

SP == <<" ">>

-----------------------------------------------------------------------------
(* Keyword tables (dicts and lists in their source order) *)

impact_keywords ==
    << <<"gold", <<
         <<"g", "o", "l", "d">>,
         <<"b", "u", "l", "l", "i", "o", "n">>,
         <<"p", "r", "e", "c", "i", "o", "u", "s", " ", "m", "e", "t", "a", "l">>
       >> >>,
       <<"usd", <<
         <<"d", "o", "l", "l", "a", "r">>,
         <<"u", "s", "d">>,
         <<"g", "r", "e", "e", "n", "b", "a", "c", "k">>
       >> >>,
       <<"rates", <<
         <<"i", "n", "t", "e", "r", "e", "s", "t", " ", "r", "a", "t", "e">>,
         <<"r", "a", "t", "e", " ", "h", "i", "k", "e">>,
         <<"f", "e", "d">>,
         <<"f", "e", "d", "e", "r", "a", "l", " ", "r", "e", "s", "e", "r", "v", "e">>
       >> >>,
       <<"inflation", <<
         <<"i", "n", "f", "l", "a", "t", "i", "o", "n">>,
         <<"c", "p", "i">>,
         <<"p", "p", "i">>
       >> >>,
       <<"jobs", <<
         <<"j", "o", "b", "s">>,
         <<"e", "m", "p", "l", "o", "y", "m", "e", "n", "t">>,
         <<"u", "n", "e", "m", "p", "l", "o", "y", "m", "e", "n", "t">>,
         <<"p", "a", "y", "r", "o", "l", "l">>
       >> >> >>

positive_words ==
    << <<"r", "i", "s", "e">>,
       <<"g", "r", "o", "w", "t", "h">>,
       <<"b", "u", "l", "l", "i", "s", "h">>,
       <<"p", "o", "s", "i", "t", "i", "v", "e">>,
       <<"s", "t", "r", "o", "n", "g">> >>

negative_words ==
    << <<"f", "a", "l", "l">>,
       <<"d", "e", "c", "l", "i", "n", "e">>,
       <<"b", "e", "a", "r", "i", "s", "h">>,
       <<"n", "e", "g", "a", "t", "i", "v", "e">>,
       <<"w", "e", "a", "k">> >>

Range(s) == {s[i] : i \in 1..Len(s)}

\* ", ".join(tags): the tags with a ", " between neighbours
RECURSIVE Join(_)
Join(tags) ==
    IF Len(tags) <= 1 THEN tags
    ELSE <<tags[1], ", ">> \o Join(Tail(tags))

RECURSIVE MatchedKeys(_, _)
\* the loop of analyze_impact over the table from entry k on
MatchedKeys(text, k) ==
    IF k > Len(impact_keywords) THEN <<>>
    ELSE LET key   == impact_keywords[k][1]
             words == impact_keywords[k][2]
             hit   == \E j \in 1..Len(words) : Contains(text, words[j])
         IN  (IF hit THEN <<key>> ELSE <<>>) \o MatchedKeys(text, k + 1)

analyze_impact_as_written(t, d) ==
    LET tags == MatchedKeys(t \o SP \o d, 1)
    IN  IF tags # <<>> THEN Join(tags) ELSE <<"general">>

analyze_impact(t, d) ==
    LET text == Lower(t \o SP \o d)
        tags == MatchedKeys(text, 1)
    IN  IF tags # <<>> THEN Join(tags) ELSE <<"general">>

analyze_sentiment_first_hit(t, d) ==
    LET text == Lower(t \o SP \o d)
        pos  == \E j \in 1..Len(positive_words) : Contains(text, positive_words[j])
        neg  == \E j \in 1..Len(negative_words) : Contains(text, negative_words[j])
    IN  IF pos THEN "Positive"
        ELSE IF neg THEN "Negative"
        ELSE "Neutral"

analyze_sentiment(t, d) ==
    LET text == Lower(t \o SP \o d)
        pos  == \E j \in 1..Len(positive_words) : Contains(text, positive_words[j])
        neg  == \E j \in 1..Len(negative_words) : Contains(text, negative_words[j])
    IN  IF pos /\ ~neg THEN "Positive"
        ELSE IF neg /\ ~pos THEN "Negative"
        ELSE IF pos /\ neg THEN "Mixed"
        ELSE "Neutral"

-----------------------------------------------------------------------------
(* Classifier inputs *)

Fragments ==
    { <<"F", "e", "d">>,
      <<"f", "e">>,
      <<"d">>,
      <<"i", "n", "t", "e", "r", "e", "s", "t">>,
      <<"r", "a", "t", "e">>,
      <<"G", "O", "L", "D">>,
      <<"u", "s", "d">>,
      <<"j", "o", "b", "s">>,
      <<"r", "i", "s", "e">>,
      <<"F", "a", "l", "l">>,
      <<"w", "e", "a", "k">>,
      <<" ">>,
      <<"x">>,
      <<"F", "e", "d", " ", "h", "i", "n", "t", "s", " ", "a", "t", " ", "r", "a", "t", "e", " ", "h", "i", "k", "e", " ", "a", "m", "i", "d", " ", "s", "t", "r", "o", "n", "g", " ", "j", "o", "b", "s", " ", "g", "r", "o", "w", "t", "h">> }

RECURSIVE Concats(_)
\* every concatenation of at most n fragments
Concats(n) ==
    IF n = 0 THEN {<<>>}
    ELSE Concats(n - 1) \cup {s \o f : s \in Concats(n - 1), f \in Fragments}

Titles == Concats(MaxFrags)
Descriptions == Concats(1)

-----------------------------------------------------------------------------
(* Feed table and HTTP responses *)

\* the names of the feeds dict, market_feeds then global_feeds, in source order
feeds ==
    << "fxstreet", "fxempire", "investing_commodities", "kitco_metals",
       "reuters_commodities", "reuters", "bbc", "aljazeera", "dawn",
       "usgs_quakes_day" >>

FeedNames == Range(feeds)

\* url.endswith(".json") or url.endswith(".geojson"), per url of the table
url_is_json(fname) == fname = "usgs_quakes_day"

single_worker == Cardinality({"main"})

\* ThreadPoolExecutor(max_workers=8)
max_workers == 8

\* the last n entries of the table (the JSON feed is the last one)
LastFeeds(n) == SubSeq(feeds, Len(feeds) - n + 1, Len(feeds))

RECURSIVE LStrip(_)
LStrip(s) == IF s # <<>> /\ Head(s) = " " THEN LStrip(Tail(s)) ELSE s

RECURSIVE RStrip(_)
RStrip(s) ==
    IF s # <<>> /\ s[Len(s)] = " " THEN RStrip(SubSeq(s, 1, Len(s) - 1)) ELSE s

\* str.strip()
Strip(s) == RStrip(LStrip(s))

\* link texts a feed may carry: none, and two spellings of one address, which
\* the XML branch makes one link and the JSON branch keeps apart
RawLinks == { <<>>, <<"a">>, <<" ", "a">> }

\* instants: time 0 of the epoch, a date carried by a feed, the time of the fetch
Epoch == 0
Dated == 1
Now == 2

\* an <item> element: its <link> text and its <pubDate> text
XmlEntries == [link : RawLinks, date : {"absent", "garbled", "dated"}]

\* a GeoJSON feature: the url and the time of its properties
JsonEntries == [link : RawLinks, date : {"absent", "dated"}]

\* documents of at most n entries
Docs(entries, n) == UNION { [1..k -> entries] : k \in 0..n }

\* what the HTTP exchange of one feed can be: a network error, an error status
\* (raise_for_status), or a body with its Content-Type; the body is an XML
\* document, a JSON document, or neither
Responses(n) ==
    { [kind |-> k, ctype_json |-> FALSE, body |-> "none", entries |-> <<>>] :
          k \in {"neterr", "httperr"} }
    \cup
    { [kind |-> "ok", ctype_json |-> j, body |-> "garbage", entries |-> <<>>] :
          j \in BOOLEAN }
    \cup
    { [kind |-> "ok", ctype_json |-> j, body |-> "xml", entries |-> e] :
          j \in BOOLEAN, e \in Docs(XmlEntries, n) }
    \cup
    { [kind |-> "ok", ctype_json |-> j, body |-> "json", entries |-> e] :
          j \in BOOLEAN, e \in Docs(JsonEntries, n) }

\* parse_pub_date: the parsed date, or now when the text does not parse
parse_pub_date(pub_date_str) == IF pub_date_str = "dated" THEN Dated ELSE Now

\* line 172: parse_pub_date(pubRaw) if pubRaw else datetime.now(timezone.utc)
PubOfItem(pubRaw) == IF pubRaw # "absent" THEN parse_pub_date(pubRaw) ELSE Now

\* line 158: datetime.fromtimestamp(props.get("time", 0) / 1000, tz=timezone.utc)
PubOfFeature(time) == IF time = "absent" THEN Epoch ELSE Dated

\* what a call ends with: a returned list, or an exception
Returned(items) == [raised |-> FALSE, items |-> items]
Raised == [raised |-> TRUE, items |-> <<>>]
NoResult == [raised |-> FALSE, items |-> <<>>]

\* line 147: the Content-Type names json, or the url ends in .json / .geojson
JsonBranch(feed_name, resp) == resp.ctype_json \/ url_is_json(feed_name)

\* an exception inside the try block: requests.get or raise_for_status
\* raises, or the body is not what the branch taken parses (r.json(),
\* ET.fromstring)
Fails(feed_name, resp) ==
    \/ resp.kind # "ok"
    \/ JsonBranch(feed_name, resp) /\ resp.body # "json"
    \/ ~JsonBranch(feed_name, resp) /\ resp.body # "xml"

\* the two parsing branches of _fetch_feed: features of a JSON body keep the
\* url as it is, <item> elements of an XML body get their link stripped.  Of an
\* item's fields the merge reads link and pub; title, description, impact and
\* sentiment ride along untouched and are the subject of SpecText
ParseBody(feed_name, resp) ==
    IF JsonBranch(feed_name, resp)
    THEN [i \in 1..Len(resp.entries) |->
             [feed |-> feed_name, link |-> resp.entries[i].link,
              pub |-> PubOfFeature(resp.entries[i].date)]]
    ELSE [i \in 1..Len(resp.entries) |->
             [feed |-> feed_name, link |-> Strip(resp.entries[i].link),
              pub |-> PubOfItem(resp.entries[i].date)]]

fetch_feed_uncaught(feed_name, resp) ==
    IF Fails(feed_name, resp) THEN Raised ELSE Returned(ParseBody(feed_name, resp))

\* _fetch_feed: every exception of the exchange or of the parse is caught,
\* logged, and turned into []
_fetch_feed(feed_name, resp) ==
    IF Fails(feed_name, resp)
    THEN Returned(<<>>) ELSE Returned(ParseBody(feed_name, resp))

-----------------------------------------------------------------------------
(* The merge of the news terminal *)

\* all_data[fname].extend(items), creating the key at its first use
DictExtend(d, fname, items) ==
    IF \E i \in 1..Len(d) : d[i].fname = fname
    THEN [i \in 1..Len(d) |->
             IF d[i].fname = fname
             THEN [d[i] EXCEPT !.items = @ \o items] ELSE d[i]]
    ELSE Append(d, [fname |-> fname, items |-> items])

RECURSIVE Flatten(_)
\* for _, items in feed_data.items(): all_news.extend(items)
Flatten(d) == IF d = <<>> THEN <<>> ELSE Head(d).items \o Flatten(Tail(d))

DictSetFirstWins(acc, item) ==
    IF \E i \in 1..Len(acc) : acc[i].link = item.link THEN acc ELSE Append(acc, item)

DictSetAppend(acc, item) == Append(acc, item)

\* dedup[item["link"]] = item: a new key goes last, a known key keeps its
\* place and takes the new value
DictSet(acc, item) ==
    IF \E i \in 1..Len(acc) : acc[i].link = item.link
    THEN [i \in 1..Len(acc) |-> IF acc[i].link = item.link THEN item ELSE acc[i]]
    ELSE Append(acc, item)

KeepsAnyLink(item) == TRUE

\* if item.get("link"): an empty link is falsy
HasLink(item) == item.link # <<>>

RECURSIVE DedupFrom(_, _)
DedupFrom(news, acc) ==
    IF news = <<>> THEN acc
    ELSE DedupFrom(Tail(news),
                   IF HasLink(Head(news)) THEN DictSet(acc, Head(news)) ELSE acc)

\* list({item["link"]: item for item in all_news if item.get("link")}.values())
Dedup(news) == DedupFrom(news, <<>>)

InsertAsc(sorted, x) ==
    LET n == Cardinality({i \in 1..Len(sorted) : sorted[i].pub <= x.pub})
    IN  SubSeq(sorted, 1, n) \o <<x>> \o SubSeq(sorted, n + 1, Len(sorted))

\* the sort is stable and reverse=True keeps it so: x goes behind every item
\* placed before it that is at least as recent
InsertDesc(sorted, x) ==
    LET n == Cardinality({i \in 1..Len(sorted) : sorted[i].pub >= x.pub})
    IN  SubSeq(sorted, 1, n) \o <<x>> \o SubSeq(sorted, n + 1, Len(sorted))

RECURSIVE SortFrom(_, _)
SortFrom(news, sorted) ==
    IF news = <<>> THEN sorted
    ELSE SortFrom(Tail(news), InsertDesc(sorted, Head(news)))

\* all_news.sort(key=lambda x: x["pub"], reverse=True)
SortByPub(news) == SortFrom(news, <<>>)

-----------------------------------------------------------------------------
(* fetch_feeds: the executor, its worker threads and the collecting loop *)

Running == {f \in FeedNames : fstate[f] = "running"}

RECURSIVE Served(_)
\* the number of items served so far by the feeds of t
Served(t) == IF t = <<>> THEN 0 ELSE Len(result[Head(t)].items) + Served(Tail(t))

\* executor.submit(_fetch_feed, fname, url), one pair of the table at a time
Submit ==
    /\ pc = "submit"
    /\ nsub < Len(table)
    /\ nsub' = nsub + 1
    /\ fstate' = [fstate EXCEPT ![table[nsub + 1]] = "pending"]
    /\ UNCHANGED <<table, pc, outcome, result, finished, finished_futures,
                   completion, yielded, all_data, all_news, slow>>
    /\ UNCHANGED <<textVars, volVars>>

\* a worker thread takes the oldest queued work item; there are at most
\* max_workers threads
Start ==
    /\ \E i \in 1..Len(table) :
          /\ fstate[table[i]] = "pending"
          /\ \A j \in 1..(i - 1) : fstate[table[j]] # "pending"
          /\ Cardinality(Running) < max_workers
          /\ fstate' = [fstate EXCEPT ![table[i]] = "running"]
    /\ UNCHANGED <<table, pc, nsub, outcome, result, finished, finished_futures,
                   completion, yielded, all_data, all_news, slow>>
    /\ UNCHANGED <<textVars, volVars>>

\* the future of f's task becomes FINISHED
Complete(f) ==
    /\ fstate[f] = "running"
    /\ fstate' = [fstate EXCEPT ![f] = "finished"]

\* the task of f runs _fetch_feed to its end and sets the future's result;
\* a waiter installed by as_completed is told
Finish(f) ==
    /\ Complete(f)
    /\ \E resp \in Responses(MaxItems - Served(table)) :
          /\ outcome' = [outcome EXCEPT ![f] = IF Fails(f, resp) THEN "failed" ELSE "ok"]
          /\ result' = [result EXCEPT ![f] = _fetch_feed(f, resp)]
    /\ completion' = Append(completion, f)
    /\ finished_futures' =
          IF pc = "collect" THEN Append(finished_futures, f) ELSE finished_futures
    /\ UNCHANGED <<table, pc, nsub, finished, yielded, all_data, all_news, slow>>
    /\ UNCHANGED <<textVars, volVars>>

\* as_completed(futures) is entered: the futures finished by now are set
\* apart, a waiter is installed on all of them
AsCompleted ==
    /\ pc = "submit"
    /\ nsub = Len(table)
    /\ finished' = {f \in Range(table) : fstate[f] = "finished"}
    /\ pc' = "collect"
    /\ UNCHANGED <<table, nsub, fstate, outcome, result, finished_futures,
                   completion, yielded, all_data, all_news, slow>>
    /\ UNCHANGED <<textVars, volVars>>

\* the body of the for loop, lines 199-206, for the future of fname
LoopBody(d, fname) ==
    IF result[fname].raised THEN d ELSE DictExtend(d, fname, result[fname].items)

\* as_completed yields the next future: one of those set apart at its entry,
\* in the order of a set (any), then the waiter's list in finishing order;
\* after the last future the with block ends and fetch_feeds returns all_data
Collect ==
    /\ pc = "collect"
    /\ \E f \in Range(table) \ Range(yielded) :
          /\ IF finished \ Range(yielded) # {}
             THEN f \in finished
             ELSE finished_futures # <<>> /\ f = Head(finished_futures)
          /\ finished_futures' =
                IF finished \ Range(yielded) # {}
                THEN finished_futures ELSE Tail(finished_futures)
          /\ yielded' = Append(yielded, f)
          /\ all_data' = LoopBody(all_data, f)
          /\ pc' = IF Range(yielded) \cup {f} = Range(table) THEN "merge" ELSE "collect"
    /\ UNCHANGED <<table, nsub, fstate, outcome, result, finished,
                   completion, all_news, slow>>
    /\ UNCHANGED <<textVars, volVars>>

\* lines 311-317: flatten, merge by link, sort by recency
Merge ==
    /\ pc = "merge"
    /\ all_news' = SortByPub(Dedup(Flatten(all_data)))
    /\ pc' = "done"
    /\ UNCHANGED <<table, nsub, fstate, outcome, result, finished, finished_futures,
                   completion, yielded, all_data, slow>>
    /\ UNCHANGED <<textVars, volVars>>

\* the executor alone: a task ends, whatever it fetched
TaskEnds(f) ==
    /\ Complete(f)
    /\ UNCHANGED <<table, pc, nsub, outcome, result, finished, finished_futures,
                   completion, yielded, all_data, all_news, slow>>
    /\ UNCHANGED <<textVars, volVars>>

-----------------------------------------------------------------------------
(* fetch_volatility *)

RECURSIVE Factorial(_)
Factorial(n) == IF n <= 1 THEN 1 ELSE n * Factorial(n - 1)

\* Returns are carried times Scale, which every close divides: they stay integers
Scale == Factorial(MaxPrice)

\* a float that may be NaN
NaN == [nan |-> TRUE, v |-> 0]
Val(x) == [nan |-> FALSE, v |-> x]

\* the squared value of a float column, as the fraction num/den, or NaN
NaNSq == [nan |-> TRUE, num |-> 0, den |-> 1]

\* the close at instant t of a series moving in blocks of b equal closes
CloseAt(t, b) == 1 + (((t - 1) \div b) % MaxPrice)

\* a download of n rows, delivered oldest first or newest first
PriceRows(n, b, newestFirst) ==
    [i \in 1..n |->
        LET t == IF newestFirst THEN n + 1 - i ELSE i
        IN  [ts |-> t, close |-> CloseAt(t, b)]]

Series == { PriceRows(n, b, r) : n \in 0..MaxObs, b \in 1..MaxBlock, r \in BOOLEAN }

\* raw.index.freqstr for a download at the given interval: None, or the
\* offset alias of the index
FreqStrs(iv) ==
    IF iv = "1h" THEN { <<>>, <<"h">>, <<"H">> } ELSE { <<>>, <<"D">>, <<"B">> }

\* df.sort_index(): the row of rank i by timestamp
SortIndex(rows) ==
    [i \in 1..Len(rows) |->
        CHOOSE r \in Range(rows) :
            Cardinality({q \in Range(rows) : q.ts < r.ts}) = i - 1]

\* df["Close"].pct_change(), times Scale
pct_change(rows) ==
    [i \in 1..Len(rows) |->
        IF i = 1 THEN NaN
        ELSE Val((Scale * (rows[i].close - rows[i - 1].close)) \div rows[i - 1].close)]

RECURSIVE SumTo(_, _, _)
\* sum of the values of rets[lo..hi]
SumTo(rets, lo, hi) == IF lo > hi THEN 0 ELSE rets[lo].v + SumTo(rets, lo + 1, hi)

RECURSIVE SumSqTo(_, _, _)
SumSqTo(rets, lo, hi) ==
    IF lo > hi THEN 0 ELSE rets[lo].v * rets[lo].v + SumSqTo(rets, lo + 1, hi)

\* rolling(window=w).std() at row i, squared: the sample variance of the w
\* returns ending at i, NaN while fewer than w observations are in the window
RollingVar(rets, w, i) ==
    IF i < w \/ \E j \in (i - w + 1)..i : j >= 1 /\ rets[j].nan
    THEN NaNSq
    ELSE LET lo == IF i - w + 1 < 1 THEN 1 ELSE i - w + 1
             s  == SumTo(rets, lo, i)
             q  == SumSqTo(rets, lo, i)
         IN  [nan |-> FALSE, num |-> w * q - s * s, den |-> Scale * Scale * w * (w - 1)]

AnnualFactorSq(w) == 252

\* (window ** 0.5), squared
FactorSq(w) == w

\* std * (window ** 0.5), squared
Scaled(var, w) == IF var.nan THEN var ELSE [var EXCEPT !.num = @ * FactorSq(w)]

KeepNa(rows) == rows

RECURSIVE dropna(_)
\* df.dropna(subset=["Volatility"])
dropna(rows) ==
    IF rows = <<>> THEN <<>>
    ELSE (IF Head(rows).volsq.nan THEN <<>> ELSE <<Head(rows)>>) \o dropna(Tail(rows))

\* line 235: 24 if ("h" in freqstr.lower() if freqstr else False) else 5
window_for(fs) == IF fs # <<>> /\ Contains(Lower(fs), <<"h">>) THEN 24 ELSE 5

\* lines 226-238 on a non-empty download
BuildFrame(rows, fs) ==
    LET sorted == SortIndex(rows)
        rets   == pct_change(sorted)
        w      == window_for(fs)
        full   == [i \in 1..Len(sorted) |->
                      [ts |-> sorted[i].ts, close |-> sorted[i].close,
                       ret |-> rets[i], volsq |-> Scaled(RollingVar(rets, w, i), w)]]
    IN  IF Len(sorted) < 3 THEN <<>> ELSE dropna(full)

\* yf.download(ticker, period="1mo", interval="1h")
Download1h ==
    /\ vpc = "start"
    /\ \E rows \in Series :
          /\ raw' = rows
          /\ vpc' = IF rows = <<>> THEN "fallback" ELSE "compute"
    /\ \E fs \in FreqStrs("1h") : freqstr' = fs
    /\ interval' = "1h"
    /\ UNCHANGED <<window, df>>
    /\ UNCHANGED <<textVars, newsVars>>

\* raw is empty: yf.download(ticker, period="6mo", interval="1d")
Download1d ==
    /\ vpc = "fallback"
    /\ \E rows \in Series : raw' = rows
    /\ \E fs \in FreqStrs("1d") : freqstr' = fs
    /\ interval' = "1d"
    /\ vpc' = "compute"
    /\ UNCHANGED <<window, df>>
    /\ UNCHANGED <<textVars, newsVars>>

\* lines 223-238: the returned frame
Compute ==
    /\ vpc = "compute"
    /\ df' = IF raw = <<>> THEN <<>> ELSE BuildFrame(raw, freqstr)
    /\ window' = IF Len(raw) < 3 THEN 0 ELSE window_for(freqstr)
    /\ vpc' = "done"
    /\ UNCHANGED <<interval, raw, freqstr>>
    /\ UNCHANGED <<textVars, newsVars>>

-----------------------------------------------------------------------------
(* The classifier as _fetch_feed applies it to one <item> *)

\* lines 179-180
Classify ==
    /\ tpc = "input"
    /\ impact' = analyze_impact(title, description)
    /\ sentiment' = analyze_sentiment(title, description)
    /\ tpc' = "classified"
    /\ UNCHANGED <<title, description>>
    /\ UNCHANGED <<newsVars, volVars>>

-----------------------------------------------------------------------------
(* Specifications *)

TextIdle ==
    /\ tpc = "input"
    /\ title = <<>>
    /\ description = <<>>
    /\ impact = <<>>
    /\ sentiment = "none"

NewsIdle ==
    /\ pc = "submit"
    /\ nsub = 0
    /\ fstate = [f \in FeedNames |-> "none"]
    /\ outcome = [f \in FeedNames |-> "none"]
    /\ result = [f \in FeedNames |-> NoResult]
    /\ finished = {}
    /\ finished_futures = <<>>
    /\ completion = <<>>
    /\ yielded = <<>>
    /\ all_data = <<>>
    /\ all_news = <<>>

VolIdle ==
    /\ vpc = "start"
    /\ interval = "1h"
    /\ raw = <<>>
    /\ freqstr = <<>>
    /\ window = 0
    /\ df = <<>>

\* one aggregation cycle of the news terminal
Init ==
    /\ NewsIdle
    /\ table = LastFeeds(NumFeeds)
    /\ slow = "none"
    /\ TextIdle
    /\ VolIdle

Next ==
    \/ Submit
    \/ Start
    \/ \E f \in FeedNames : Finish(f)
    \/ AsCompleted
    \/ Collect
    \/ Merge

Spec == Init /\ [][Next]_vars

\* the classifier on one (title, description)
TextInit ==
    /\ tpc = "input"
    /\ title \in Titles
    /\ description \in Descriptions
    /\ impact = <<>>
    /\ sentiment = "none"
    /\ NewsIdle
    /\ table = <<>>
    /\ slow = "none"
    /\ VolIdle

TextNext == Classify

SpecText == TextInit /\ [][TextNext]_vars

\* one call of fetch_volatility
VolInit ==
    /\ VolIdle
    /\ NewsIdle
    /\ table = <<>>
    /\ slow = "none"
    /\ TextIdle

VolNext ==
    \/ Download1h
    \/ Download1d
    \/ Compute

SpecVol == VolInit /\ [][VolNext]_vars

\* the executor over the whole feed table, one fetch being slow; the main
\* thread keeps submitting, an idle worker takes the next work item, and every
\* fetch but the slow one ends
PoolInit ==
    /\ NewsIdle
    /\ table = feeds
    /\ slow \in FeedNames
    /\ TextIdle
    /\ VolIdle

PoolNext ==
    \/ Submit
    \/ Start
    \/ \E f \in FeedNames : TaskEnds(f)

SpecPool ==
    /\ PoolInit
    /\ [][PoolNext]_vars
    /\ WF_vars(Submit)
    /\ WF_vars(Start)
    /\ WF_vars(\E f \in FeedNames \ {slow} : TaskEnds(f))

-----------------------------------------------------------------------------
(* Claims about the merge of one aggregation cycle (Spec) *)

\* every item the cycle's fetches returned
FetchedItems == UNION { Range(result[f].items) : f \in Range(table) }

RECURSIVE ByOrder(_)
\* the fetched items, feed after feed in the given order of feeds
ByOrder(order) ==
    IF order = <<>> THEN <<>> ELSE result[Head(order)].items \o ByOrder(Tail(order))

\* the last item of news carrying link l
LastWithLink(news, l) ==
    LET last == CHOOSE i \in 1..Len(news) :
                    /\ news[i].link = l
                    /\ \A j \in (i + 1)..Len(news) : news[j].link # l
    IN  news[last]

\* the place of feed f in a sequence of feeds
Pos(order, f) == CHOOSE i \in 1..Len(order) : order[i] = f

\* C1: once the merge has run, no two items of the merged list carry the same
\* link, and the list is no longer than the number of raw items fetched.
C1_MergedLinksUnique ==
    pc = "done" =>
        /\ \A i, j \in 1..Len(all_news) :
               i # j => all_news[i].link # all_news[j].link
        /\ Len(all_news) <= Served(table)

\* two fetched items carried one link, and the merge kept a single item for it
C1_Witness ==
    /\ pc = "done"
    /\ Len(all_news) >= 1
    /\ \E i, j \in 1..Len(Flatten(all_data)) :
           /\ i # j
           /\ Flatten(all_data)[i].link = Flatten(all_data)[j].link
           /\ Flatten(all_data)[i].link # <<>>

\* C2 as stated: of the fetched items sharing a link, the merge keeps the one
\* that is last when the feeds are taken in the order their tasks completed
\* (and, within a feed, in document order).
C2_LaterCompletionWins ==
    pc = "done" =>
        \A i \in 1..Len(all_news) :
            all_news[i] = LastWithLink(ByOrder(completion), all_news[i].link)

\* C2 as amended: of the fetched items sharing a link, the merge keeps the one
\* that is last when the feeds are taken in the order as_completed yielded
\* them (within a feed, in document order); a feed whose task completed after
\* as_completed was entered is yielded after every feed that completed before
\* it, while the feeds already complete at that point come first in any order.
C2_LaterCollectedWins ==
    pc = "done" =>
        /\ \A i \in 1..Len(all_news) :
               all_news[i] = LastWithLink(ByOrder(yielded), all_news[i].link)
        /\ \A f, g \in Range(table) :
               (g \notin finished /\ Pos(completion, f) < Pos(completion, g))
                   => Pos(yielded, f) < Pos(yielded, g)

\* two feeds delivered different items under one link, the second of them
\* completing while the loop was already collecting
C2_Witness ==
    /\ pc = "done"
    /\ \E f, g \in Range(table) :
           /\ f # g
           /\ g \notin finished
           /\ Pos(completion, f) < Pos(completion, g)
           /\ \E x \in Range(result[f].items), y \in Range(result[g].items) :
                  /\ x.link = y.link
                  /\ x.link # <<>>
                  /\ x.pub # y.pub
                  /\ \E i \in 1..Len(all_news) : all_news[i] = y

\* C3: once fetch_feeds has returned, every feed whose exchange failed ended
\* with an empty list and no exception, and all_data holds for every feed
\* exactly one entry, with exactly the items its fetch returned.
C3_FailuresIsolated ==
    pc \in {"merge", "done"} =>
        \A f \in Range(table) :
            /\ ~result[f].raised
            /\ outcome[f] = "failed" => result[f].items = <<>>
            /\ Cardinality({i \in 1..Len(all_data) : all_data[i].fname = f}) = 1
            /\ \A i \in 1..Len(all_data) :
                   all_data[i].fname = f => all_data[i].items = result[f].items

\* one feed failed and another feed's items are in the returned dict
C3_Witness ==
    /\ pc = "done"
    /\ \E f, g \in Range(table) :
           /\ outcome[f] = "failed"
           /\ outcome[g] = "ok"
           /\ result[g].items # <<>>
           /\ \E i \in 1..Len(all_data) :
                  all_data[i].fname = g /\ all_data[i].items = result[g].items

\* C4: the list handed to presentation is ordered by publication instant,
\* most recent first: no item is older than its successor.
C4_SortedByRecency ==
    pc = "done" =>
        \A i \in 1..(Len(all_news) - 1) : all_news[i].pub >= all_news[i + 1].pub

\* the merged items arrived oldest first and the sort turned them round
C4_Witness ==
    /\ pc = "done"
    /\ Len(all_news) = 2
    /\ all_news[1].pub > all_news[2].pub
    /\ Dedup(Flatten(all_data)) = <<all_news[2], all_news[1]>>

\* C10: the links of the merged list are exactly the non-empty links of the
\* fetched items, each carried by exactly one item; no item without a link is
\* in the list.
C10_LinksAreTheNonEmptyFetched ==
    pc = "done" =>
        /\ {all_news[i].link : i \in 1..Len(all_news)}
               = {x.link : x \in FetchedItems} \ {<<>>}
        /\ \A x \in FetchedItems :
               x.link # <<>> =>
                   Cardinality({i \in 1..Len(all_news) : all_news[i].link = x.link}) = 1

\* an item without a link was fetched next to an item with one
C10_Witness ==
    /\ pc = "done"
    /\ \E x, y \in FetchedItems : x.link = <<>> /\ y.link # <<>>
    /\ Len(all_news) = 1

-----------------------------------------------------------------------------
(* Claims about the classifier (SpecText) *)

\* the text the classifier searches: title, a space, description, lowercased
SearchedText == Lower(title) \o SP \o Lower(description)

PosHit == \E w \in Range(positive_words) : Contains(SearchedText, w)
NegHit == \E w \in Range(negative_words) : Contains(SearchedText, w)

\* the words of category k in the keyword table
WordsOf(k) ==
    UNION { Range(impact_keywords[i][2]) :
                i \in {j \in 1..Len(impact_keywords) : impact_keywords[j][1] = k} }

Categories == {"gold", "usd", "rates", "inflation", "jobs"}

Matched(k) == \E w \in WordsOf(k) : Contains(SearchedText, w)

\* C5: the sentiment is Positive for a positive word and no negative word,
\* Negative for a negative word and no positive word, Mixed for both, Neutral
\* for neither.
C5_SentimentTable ==
    tpc = "classified" =>
        /\ sentiment \in {"Positive", "Negative", "Mixed", "Neutral"}
        /\ (PosHit /\ ~NegHit) => sentiment = "Positive"
        /\ (NegHit /\ ~PosHit) => sentiment = "Negative"
        /\ (PosHit /\ NegHit) => sentiment = "Mixed"
        /\ (~PosHit /\ ~NegHit) => sentiment = "Neutral"

\* a text with a positive and a negative word, in capitals too, was classified
C5_Witness ==
    /\ tpc = "classified"
    /\ sentiment = "Mixed"
    /\ Contains(title, <<"F", "a", "l", "l">>)

-----------------------------------------------------------------------------
(* Claims about fetch_volatility (SpecVol) *)

\* the returns of the download in use, in timestamp order
ReturnsOfRaw == pct_change(SortIndex(raw))

HourlyFreq == freqstr \in { <<"h">>, <<"H">> }

-----------------------------------------------------------------------------
(* Claim about the worker pool (SpecPool) *)

\* C9: whatever the slow fetch does, every other feed's task is started and
\* completes.
C9_OthersComplete ==
    <>(\A f \in Range(table) \ {slow} : fstate[f] = "finished")

\* the slow fetch is still running and every other task has completed
C9_Witness ==
    /\ slow \in Range(table)
    /\ fstate[slow] = "running"
    /\ \A f \in Range(table) \ {slow} : fstate[f] = "finished"

=============================================================================
